---- MODULE Spec2Model ----
(***************************************************************************)
(* Model of the move decision of src/api/index.py (a Battlesnake server):  *)
(* MovementStrategy.get_safe_moves, _calculate_position_safety (the second *)
(* definition, which replaces the first), _calculate_flood_fill with its   *)
(* recursive helper, evaluate_food_moves and the selection in move().      *)
(*                                                                         *)
(* Scores are Python floats that are always multiples of one half          *)
(* (available_space / 2, food_score * 0.5).  The model stores twice the    *)
(* Python value as an integer, so 100.0 is 200, -150 is -300, and so on.   *)
(* float('-inf') is the integer NegInf, below every finite score that the  *)
(* bounded inputs can produce; Add keeps it absorbing as in IEEE floats.   *)
(***************************************************************************)
EXTENDS Integers, Sequences, FiniteSets, TLC

VARIABLES game_state, pc, moves, best_move,
          start_pos, neighbour_order, stack, visited, space, visit_log

vars == <<game_state, pc, moves, best_move,
          start_pos, neighbour_order, stack, visited, space, visit_log>>

(***************************************************************************)
(* Bounds of the model.                                                    *)
(***************************************************************************)
MaxSide == 3
MaxCells == 6
MaxItems == 4

(***************************************************************************)
(* Program constants.                                                      *)
(***************************************************************************)
Scale == 2
NegInf == -1000000

Pos(x, y) == [x |-> x, y |-> y]

Abs(n) == IF n < 0 THEN -n ELSE n

Min(a, b) == IF a < b THEN a ELSE b

Max(a, b) == IF a > b THEN a ELSE b

Add(s, d) == IF s = NegInf THEN NegInf ELSE s + d

Range(s) == {s[i] : i \in 1..Len(s)}

Last(s) == s[Len(s)]

Front(s) == SubSeq(s, 1, Len(s) - 1)

(***************************************************************************)
(* class Direction; the dict of get_safe_moves is built, and therefore     *)
(* iterated, in this order.                                                *)
(***************************************************************************)
Direction == <<"up", "down", "left", "right">>

Directions == Range(Direction)

(***************************************************************************)
(* MovementStrategy.__init__                                               *)
(***************************************************************************)
MovementStrategy(gs) ==
    [game_state   |-> gs,
     board_width  |-> gs.board.width,
     board_height |-> gs.board.height,
     my_snake     |-> gs.you,
     my_head      |-> Pos(gs.you.body[1].x, gs.you.body[1].y),
     my_length    |-> Len(gs.you.body),
     health       |-> gs.you.health,
     opponents    |-> SelectSeq(gs.board.snakes, LAMBDA s : s.id # gs.you.id)]

_get_next_position_flipped(self, direction) ==
    IF direction = "up" THEN Pos(self.my_head.x, self.my_head.y - 1)
    ELSE IF direction = "down" THEN Pos(self.my_head.x, self.my_head.y + 1)
    ELSE IF direction = "left" THEN Pos(self.my_head.x - 1, self.my_head.y)
    ELSE Pos(self.my_head.x + 1, self.my_head.y)

_get_next_position(self, direction) ==
    IF direction = "up" THEN Pos(self.my_head.x, self.my_head.y + 1)
    ELSE IF direction = "down" THEN Pos(self.my_head.x, self.my_head.y - 1)
    ELSE IF direction = "left" THEN Pos(self.my_head.x - 1, self.my_head.y)
    ELSE Pos(self.my_head.x + 1, self.my_head.y)

_is_valid_position(self, pos) ==
    /\ 0 <= pos.x /\ pos.x < self.board_width
    /\ 0 <= pos.y /\ pos.y < self.board_height

_is_adjacent(pos1, pos2) == Abs(pos1.x - pos2.x) + Abs(pos1.y - pos2.y) = 1

(***************************************************************************)
(* _calculate_flood_fill, lines 147-154: the grid and the marking of the   *)
(* snakes' bodies.  A Python list of n items accepts the indexes -n..n-1,  *)
(* a negative one counting from the end, and raises IndexError otherwise.  *)
(***************************************************************************)
new_board_transposed(self) == [nx |-> self.board_height, ny |-> self.board_width]

new_board(self) == [nx |-> self.board_width, ny |-> self.board_height]

segments_to_mark_never_tail(self, snake) ==
    IF snake.id = self.my_snake.id THEN Front(snake.body) ELSE snake.body

segments_to_mark(self, snake) ==
    IF snake.id = self.my_snake.id /\ self.health < 100
    THEN Front(snake.body)
    ELSE snake.body

InIndexRange(i, n) == -n <= i /\ i < n

PyIndex(i, n) == IF i < 0 THEN i + n ELSE i

AllMarkedSegments(self) ==
    UNION {Range(segments_to_mark(self, self.game_state.board.snakes[i])) :
             i \in 1..Len(self.game_state.board.snakes)}

mark_raises(self) ==
    LET grid == new_board(self)
    IN  \E seg \in AllMarkedSegments(self) :
           ~InIndexRange(seg.x, grid.nx) \/ ~InIndexRange(seg.y, grid.ny)

marked_board(self) ==
    LET grid == new_board(self)
    IN  {Pos(PyIndex(seg.x, grid.nx), PyIndex(seg.y, grid.ny)) :
           seg \in AllMarkedSegments(self)}

(***************************************************************************)
(* flood_fill_recursive, lines 156-171, run on its call stack.  A frame    *)
(* holds the cell (x, y) of a call that passed the test of lines 158-161,  *)
(* the index i of the neighbour its loop is at, and its local `space`; a   *)
(* call that fails the test returns 0 and gets no frame.  The Python set   *)
(* `visited` is shared by all the calls.  run is the state of the whole    *)
(* fill: the stack, visited, and, once the first call has returned, its    *)
(* result.                                                                 *)
(***************************************************************************)
Neighbours == <<Pos(0, 1), Pos(0, -1), Pos(1, 0), Pos(-1, 0)>>

flood_fill_blocked_no_obstacles(self, board, x, y, vis) ==
    \/ Pos(x, y) \in vis
    \/ x < 0 \/ x >= self.board_width
    \/ y < 0 \/ y >= self.board_height

flood_fill_blocked(self, board, x, y, vis) ==
    \/ Pos(x, y) \in vis
    \/ x < 0 \/ x >= self.board_width
    \/ y < 0 \/ y >= self.board_height
    \/ Pos(x, y) \in board

Frame(x, y) == [x |-> x, y |-> y, i |-> 1, space |-> 1]

(* A value returned to the caller: space += value, next neighbour; the     *)
(* value returned by the first call is the result.                         *)
flood_fill_return(run, value) ==
    IF run.stack = <<>>
    THEN [run EXCEPT !.done = TRUE, !.result = value]
    ELSE [run EXCEPT !.stack[Len(run.stack)].space = @ + value,
                     !.stack[Len(run.stack)].i = @ + 1]

flood_fill_call(self, board, run, x, y) ==
    IF flood_fill_blocked(self, board, x, y, run.visited)
    THEN flood_fill_return(run, 0)
    ELSE [run EXCEPT !.visited = @ \cup {Pos(x, y)},
                     !.stack = Append(@, Frame(x, y))]

flood_fill_step(self, board, order, run) ==
    LET top == run.stack[Len(run.stack)]
    IN  IF run.done THEN run
        ELSE IF top.i <= Len(order)
        THEN flood_fill_call(self, board, run, top.x + order[top.i].x,
                             top.y + order[top.i].y)
        ELSE flood_fill_return([run EXCEPT !.stack = Front(@)], top.space)

(* n steps of the fill, or fewer if it ends before.                        *)
RECURSIVE flood_fill_steps(_, _, _, _, _)
flood_fill_steps(self, board, order, run, n) ==
    IF run.done \/ n = 0 THEN run
    ELSE IF n = 1 THEN flood_fill_step(self, board, order, run)
    ELSE LET half == flood_fill_steps(self, board, order, run, n \div 2)
         IN  IF half.done THEN half
             ELSE flood_fill_steps(self, board, order, half, n - (n \div 2))

(* Every call but the first is made by a frame's loop, four per frame, and *)
(* every frame returns once: at most 5 steps per cell after the first call.*)
_calculate_flood_fill(self, start) ==
    LET first == flood_fill_call(self, marked_board(self),
                                 [stack |-> <<>>, visited |-> {}, done |-> FALSE,
                                  result |-> 0],
                                 start.x, start.y)
    IN  flood_fill_steps(self, marked_board(self), Neighbours, first,
                         5 * self.board_width * self.board_height).result

(***************************************************************************)
(* _calculate_position_safety.  The class body defines it twice (lines 109 *)
(* and 175); the second binding replaces the first, so the method that     *)
(* runs is the one of lines 175-215.                                       *)
(***************************************************************************)
immediate_collision_own_body(self, pos) ==
    \E j \in 1..(Len(self.my_snake.body) - 1) :
       /\ pos.x = self.my_snake.body[j].x
       /\ pos.y = self.my_snake.body[j].y

immediate_collision_skip_head(self, pos) ==
    \E i \in 1..Len(self.game_state.board.snakes) :
       \E j \in 2..(Len(self.game_state.board.snakes[i].body) - 1) :
          /\ pos.x = self.game_state.board.snakes[i].body[j].x
          /\ pos.y = self.game_state.board.snakes[i].body[j].y

immediate_collision(self, pos) ==
    \E i \in 1..Len(self.game_state.board.snakes) :
       \E j \in 1..(Len(self.game_state.board.snakes[i].body) - 1) :
          /\ pos.x = self.game_state.board.snakes[i].body[j].x
          /\ pos.y = self.game_state.board.snakes[i].body[j].y

space_term(self, available_space) ==
    IF available_space <= self.my_length
    THEN - Scale * Max(0, (self.my_length - available_space) * 30)
    ELSE Min(Scale * 50, (Scale * available_space) \div 2)

RECURSIVE head_to_head_term(_, _, _)
head_to_head_term(self, pos, i) ==
    IF i > Len(self.opponents) THEN 0
    ELSE LET opponent_head == Pos(self.opponents[i].body[1].x,
                                  self.opponents[i].body[1].y)
             opponent_length == Len(self.opponents[i].body)
             here == IF _is_adjacent(pos, opponent_head)
                     THEN IF self.my_length <= opponent_length
                          THEN - Scale * 150
                          ELSE Scale * 25
                     ELSE 0
         IN  here + head_to_head_term(self, pos, i + 1)

wall_term(self, pos) ==
    (IF pos.x = 0 \/ pos.x = self.board_width - 1 THEN - Scale * 10 ELSE 0)
    + (IF pos.y = 0 \/ pos.y = self.board_height - 1 THEN - Scale * 10 ELSE 0)

(* The definition of lines 109-143, which the second one replaces.         *)
RECURSIVE head_to_head_term_first(_, _, _)
head_to_head_term_first(self, pos, i) ==
    IF i > Len(self.opponents) THEN 0
    ELSE (IF _is_adjacent(pos, Pos(self.opponents[i].body[1].x,
                                   self.opponents[i].body[1].y))
          THEN IF self.my_length <= Len(self.opponents[i].body)
               THEN - Scale * 75
               ELSE Scale * 25
          ELSE 0)
         + head_to_head_term_first(self, pos, i + 1)

_calculate_position_safety_first(self, pos) ==
    IF immediate_collision(self, pos) THEN NegInf
    ELSE Scale * 100
         + head_to_head_term_first(self, pos, 1)
         + (IF _calculate_flood_fill(self, pos) < self.my_length
            THEN - Scale * (self.my_length - _calculate_flood_fill(self, pos)) * 10
            ELSE 0)
         + (IF pos.x = 0 \/ pos.x = self.board_width - 1 THEN - Scale * 20 ELSE 0)
         + (IF pos.y = 0 \/ pos.y = self.board_height - 1 THEN - Scale * 20 ELSE 0)

_calculate_position_safety(self, pos) ==
    IF immediate_collision(self, pos) THEN NegInf
    ELSE Scale * 100
         + space_term(self, _calculate_flood_fill(self, pos))
         + head_to_head_term(self, pos, 1)
         + wall_term(self, pos)

(***************************************************************************)
(* get_safe_moves, lines 75-92.  _calculate_position_safety reaches the    *)
(* marking of the grid only for a candidate that is on the board and no    *)
(* immediate collision, so that is when an IndexError can escape.          *)
(***************************************************************************)
get_safe_moves_raises(self) ==
    \E d \in Directions :
       /\ _is_valid_position(self, _get_next_position(self, d))
       /\ ~immediate_collision(self, _get_next_position(self, d))
       /\ mark_raises(self)

get_safe_moves(self) ==
    [d \in Directions |->
       IF _is_valid_position(self, _get_next_position(self, d))
       THEN _calculate_position_safety(self, _get_next_position(self, d))
       ELSE NegInf]

(***************************************************************************)
(* evaluate_food_moves and its helpers, lines 221-272.  An Optional        *)
(* Position is a sequence of length 0 (None) or 1.                         *)
(***************************************************************************)
food_weight(self) ==
    IF self.health < 50 THEN Scale * 2
    ELSE IF self.health < 75 THEN Scale
    ELSE Scale \div 2

Distance(p, q) == Abs(p.x - q.x) + Abs(p.y - q.y)

RECURSIVE find_closest_food_loop(_, _, _, _)
find_closest_food_loop(food, pos, i, closest_food) ==
    IF i > Len(food) THEN closest_food
    ELSE IF closest_food = <<>> \/ Distance(pos, food[i]) < Distance(pos, closest_food[1])
         THEN find_closest_food_loop(food, pos, i + 1, <<Pos(food[i].x, food[i].y)>>)
         ELSE find_closest_food_loop(food, pos, i + 1, closest_food)

_find_closest_food(self, pos) ==
    find_closest_food_loop(self.game_state.board.food, pos, 1, <<>>)

_am_closest_to_food_or_equal(self, food) ==
    LET my_distance == Distance(self.my_head, food)
    IN  ~ \E i \in 1..Len(self.opponents) :
            Distance(self.opponents[i].body[1], food) <= my_distance

_am_closest_to_food(self, food) ==
    LET my_distance == Distance(self.my_head, food)
    IN  ~ \E i \in 1..Len(self.opponents) :
            Distance(self.opponents[i].body[1], food) < my_distance

_calculate_food_score(pos, food) == Max(50 - Distance(pos, food) * 5, 0)

food_adjusted(self, direction, score) ==
    IF score = NegInf THEN score
    ELSE LET next_pos == _get_next_position(self, direction)
             closest_food == _find_closest_food(self, next_pos)
         IN  IF closest_food # <<>> /\ _am_closest_to_food(self, closest_food[1])
             THEN Add(score, _calculate_food_score(next_pos, closest_food[1])
                               * food_weight(self))
             ELSE score

evaluate_food_moves(self, base_moves) ==
    [d \in Directions |-> food_adjusted(self, d, base_moves[d])]

(***************************************************************************)
(* move, line 302: max() keeps the first item among those with the largest *)
(* key, in the iteration order of the dict.                                *)
(***************************************************************************)
RECURSIVE max_item_last(_, _, _)
max_item_last(scores, i, best) ==
    IF i > Len(Direction) THEN best
    ELSE IF scores[Direction[i]] >= scores[best]
         THEN max_item_last(scores, i + 1, Direction[i])
         ELSE max_item_last(scores, i + 1, best)

RECURSIVE max_item(_, _, _)
max_item(scores, i, best) ==
    IF i > Len(Direction) THEN best
    ELSE IF scores[Direction[i]] > scores[best]
         THEN max_item(scores, i + 1, Direction[i])
         ELSE max_item(scores, i + 1, best)

choose_best_move(scores) == max_item(scores, 2, Direction[1])

(***************************************************************************)
(* Inputs: the decoded request body of POST /move.  Only the fields the    *)
(* code reads are kept: board.width, board.height, board.snakes (id, body, *)
(* health), board.food and you.  A body is a self-avoiding path of         *)
(* adjacent cells from the head, possibly followed by copies of its last   *)
(* cell (the game stacks segments on the tail at the start and after a     *)
(* meal).  Snakes do not overlap each other and food lies on free cells.   *)
(***************************************************************************)
Cells(w, h) == {Pos(x, y) : x \in 0..(w - 1), y \in 0..(h - 1)}

RECURSIVE Walks(_, _, _)
Walks(C, heads, n) ==
    IF n = 1 THEN {<<c>> : c \in heads \cap C}
    ELSE UNION {{Append(b, c) : c \in {c \in C : /\ _is_adjacent(Last(b), c)
                                                  /\ c \notin Range(b)}} :
                  b \in Walks(C, heads, n - 1)}

RECURSIVE Bodies(_, _, _)
Bodies(C, heads, n) ==
    IF n = 1 THEN Walks(C, heads, 1)
    ELSE Walks(C, heads, n) \cup {Append(b, Last(b)) : b \in Bodies(C, heads, n - 1)}

BodiesUpTo(C, n) == UNION {Bodies(C, C, k) : k \in 1..n}

Snake(id, body, health) == [id |-> id, body |-> body, health |-> health]

GameState(w, h, snakes, food, you) ==
    [board |-> [width |-> w, height |-> h, snakes |-> snakes, food |-> food],
     you   |-> you]

Boards == {b \in (1..MaxSide) \X (1..MaxSide) : b[1] * b[2] <= MaxCells}

Occupied(snakes) == UNION {Range(snakes[i].body) : i \in 1..Len(snakes)}

Segments(snakes) ==
    IF Len(snakes) = 1 THEN Len(snakes[1].body)
    ELSE IF Len(snakes) = 2 THEN Len(snakes[1].body) + Len(snakes[2].body)
    ELSE Len(snakes[1].body) + Len(snakes[2].body) + Len(snakes[3].body)

(* The acting snake alone, with one opponent, or with two opponents; n     *)
(* bounds the number of body segments on the board.                        *)
OneOrTwoSnakes(C, health, n) ==
    {<<Snake("me", b, health)>> : b \in BodiesUpTo(C, n)}
    \cup UNION {{<<Snake("me", b, health), Snake("opp1", o, 100)>> :
                   o \in BodiesUpTo(C \ Range(b), n - Len(b))} :
                  b \in BodiesUpTo(C, n - 1)}

SnakeLists(C, health, n) ==
    OneOrTwoSnakes(C, health, n)
    \cup UNION {UNION {{<<Snake("opp1", o, 100), Snake("me", b, health),
                          Snake("opp2", q, 100)>> :
                   q \in BodiesUpTo((C \ Range(b)) \ Range(o), n - Len(b) - Len(o))} :
                  o \in BodiesUpTo(C \ Range(b), n - Len(b) - 1)} :
                  b \in BodiesUpTo(C, n - 2)}

Me(snakes) == IF Len(snakes) = 3 THEN snakes[2] ELSE snakes[1]

RECURSIVE FoodLists(_, _)
FoodLists(C, n) ==
    IF n <= 0 THEN {<<>>}
    ELSE FoodLists(C, n - 1)
         \cup {Append(f, c) : f \in {g \in FoodLists(C, n - 1) : Len(g) = n - 1},
                              c \in C}

DistinctFood(f) == \A i, j \in 1..Len(f) : i # j => f[i] # f[j]

FoodChoices(w, h, snakes, n) ==
    {g \in FoodLists(Cells(w, h) \ Occupied(snakes), n) : DistinctFood(g)}

(* Health decides the food weight (below 50, below 75, otherwise) and      *)
(* whether the acting snake's tail is marked (below 100 or not).           *)
HealthLevels == {49, 50, 74, 75}

WithHealth(snakes, health) ==
    [i \in 1..Len(snakes) |->
       IF snakes[i].id = "me" THEN Snake("me", snakes[i].body, health)
       ELSE snakes[i]]

(***************************************************************************)
(* Snapshots whose acting snake has a segment off the board: the transport *)
(* layer does not validate positions, so move() can receive them.          *)
(***************************************************************************)
ExtCells(w, h) == {Pos(x, y) : x \in -1..w, y \in -1..h}

OffBoardSnakeLists(w, h, n) ==
    {<<Snake("me", b, 99)>> :
       b \in {c \in BodiesUpTo(ExtCells(w, h), n) : ~(Range(c) \subseteq Cells(w, h))}}

(***************************************************************************)
(* The two scenarios of the design document, on the standard 11 x 11 board *)
(* (the second also on a board one cell wide).                             *)
(***************************************************************************)
ScenarioOpenBoard ==
    LET me == Snake("me", <<Pos(5, 5), Pos(5, 4), Pos(5, 3)>>, 90)
    IN  GameState(11, 11, <<me>>, <<Pos(5, 8)>>, me)

ScenarioHeadToHead(w, h, health, food) ==
    UNION {{GameState(w, h, <<Snake("me", b, health), Snake("opp1", o, 100)>>, food,
                      Snake("me", b, health)) :
              o \in Bodies(Cells(w, h) \ Range(b), {Pos(0, 6)}, 3)} :
             b \in Bodies(Cells(w, h) \ {Pos(0, 6)}, {Pos(0, 5)}, 3)}

InScenarioHeadToHead(gs) ==
    /\ Len(gs.board.snakes) = 2
    /\ gs.you.body[1] = Pos(0, 5) /\ Len(gs.you.body) = 3
    /\ gs.board.snakes[2].body[1] = Pos(0, 6) /\ Len(gs.board.snakes[2].body) = 3

(***************************************************************************)
(* The handler of POST /move as a state machine: pc is the position in     *)
(* move(), moves its local dict, best_move the direction it returns.       *)
(***************************************************************************)
Idle ==
    /\ moves = [d \in Directions |-> 0]
    /\ best_move = "none"

NoFlood ==
    /\ start_pos = Pos(0, 0)
    /\ neighbour_order = Neighbours
    /\ stack = <<>>
    /\ visited = {}
    /\ space = 0
    /\ visit_log = <<>>

Init ==
    /\ \/ \E b \in Boards :
            \E sn \in SnakeLists(Cells(b[1], b[2]), 99, MaxItems) :
              \E f \in FoodChoices(b[1], b[2], sn, MaxItems - Segments(sn)) :
                \E hl \in IF f = <<>> THEN {99, 100} ELSE HealthLevels :
                   game_state = GameState(b[1], b[2], WithHealth(sn, hl), f,
                                          Me(WithHealth(sn, hl)))
       \/ \E b \in Boards :
            \E sn \in OffBoardSnakeLists(b[1], b[2], MaxItems - 1) :
               game_state = GameState(b[1], b[2], sn, <<>>, sn[1])
       \/ game_state = ScenarioOpenBoard
       \/ \E w \in {1, 11}, hl \in {99, 100}, f \in {<<>>, <<Pos(0, 8)>>} :
            game_state \in ScenarioHeadToHead(w, 11, hl, f)
    /\ pc = "start"
    /\ Idle
    /\ NoFlood

Self == MovementStrategy(game_state)

GetSafeMoves ==
    /\ pc = "start"
    /\ ~get_safe_moves_raises(Self)
    /\ moves' = get_safe_moves(Self)
    /\ pc' = "scored"
    /\ UNCHANGED <<game_state, best_move, start_pos, neighbour_order, stack, visited,
                   space, visit_log>>

(* An exception leaves move(); Flask answers 500 (internal_error).         *)
GetSafeMovesRaises ==
    /\ pc = "start"
    /\ get_safe_moves_raises(Self)
    /\ pc' = "error"
    /\ UNCHANGED <<game_state, moves, best_move, start_pos, neighbour_order, stack,
                   visited, space, visit_log>>

EvaluateFoodMoves ==
    /\ pc = "scored"
    /\ moves' = evaluate_food_moves(Self, moves)
    /\ pc' = "fed"
    /\ UNCHANGED <<game_state, best_move, start_pos, neighbour_order, stack, visited,
                   space, visit_log>>

ChooseBestMove ==
    /\ pc = "fed"
    /\ best_move' = choose_best_move(moves)
    /\ pc' = "done"
    /\ UNCHANGED <<game_state, moves, start_pos, neighbour_order, stack, visited,
                   space, visit_log>>

Next ==
    \/ GetSafeMoves
    \/ GetSafeMovesRaises
    \/ EvaluateFoodMoves
    \/ ChooseBestMove

Spec == Init /\ [][Next]_vars

(***************************************************************************)
(* _calculate_flood_fill(start_pos) step by step: the call stack of        *)
(* flood_fill_recursive.  A frame holds the cell of the call, the index i  *)
(* of the neighbour its loop is at, and its local `space`.  A call whose   *)
(* test of lines 158-161 succeeds returns 0 without a frame of its own.    *)
(* visit_log records the executions of visited.add (line 164) in order.    *)
(***************************************************************************)
Top == stack[Len(stack)]

NextCell ==
    Pos(Top.x + neighbour_order[Top.i].x, Top.y + neighbour_order[Top.i].y)

(* The list of line 168, and the same four steps in another order, to see  *)
(* that the count does not depend on the order.                            *)
NeighbourOrders ==
    {Neighbours, <<Pos(-1, 0), Pos(0, -1), Pos(1, 0), Pos(0, 1)>>}

FloodInit ==
    /\ \E b \in Boards :
         \E sn \in OneOrTwoSnakes(Cells(b[1], b[2]), 99, MaxItems - 1) :
           \E hl \in {99, 100} :
              /\ game_state = GameState(b[1], b[2], WithHealth(sn, hl), <<>>,
                                        Me(WithHealth(sn, hl)))
              /\ start_pos \in Cells(b[1], b[2])
    /\ neighbour_order \in NeighbourOrders
    /\ pc = "flood"
    /\ stack = <<>>
    /\ visited = {}
    /\ space = 0
    /\ visit_log = <<>>
    /\ Idle

FloodEnterBlocked ==
    /\ pc = "flood"
    /\ flood_fill_blocked(Self, marked_board(Self), start_pos.x, start_pos.y, visited)
    /\ space' = 0
    /\ pc' = "flood_done"
    /\ UNCHANGED <<game_state, moves, best_move, start_pos, neighbour_order, stack,
                   visited, visit_log>>

FloodEnter ==
    /\ pc = "flood"
    /\ ~flood_fill_blocked(Self, marked_board(Self), start_pos.x, start_pos.y, visited)
    /\ visited' = visited \cup {start_pos}
    /\ visit_log' = Append(visit_log, start_pos)
    /\ stack' = <<Frame(start_pos.x, start_pos.y)>>
    /\ pc' = "flood_loop"
    /\ UNCHANGED <<game_state, moves, best_move, start_pos, neighbour_order, space>>

FloodSkip ==
    /\ pc = "flood_loop"
    /\ Top.i <= Len(neighbour_order)
    /\ flood_fill_blocked(Self, marked_board(Self), NextCell.x, NextCell.y, visited)
    /\ stack' = [stack EXCEPT ![Len(stack)].i = @ + 1]
    /\ UNCHANGED <<game_state, pc, moves, best_move, start_pos, neighbour_order,
                   visited, space, visit_log>>

FloodDescend ==
    /\ pc = "flood_loop"
    /\ Top.i <= Len(neighbour_order)
    /\ ~flood_fill_blocked(Self, marked_board(Self), NextCell.x, NextCell.y, visited)
    /\ visited' = visited \cup {NextCell}
    /\ visit_log' = Append(visit_log, NextCell)
    /\ stack' = Append(stack, Frame(NextCell.x, NextCell.y))
    /\ UNCHANGED <<game_state, pc, moves, best_move, start_pos, neighbour_order,
                   space>>

FloodReturn ==
    /\ pc = "flood_loop"
    /\ Top.i > Len(neighbour_order)
    /\ IF Len(stack) = 1
       THEN /\ space' = Top.space
            /\ stack' = <<>>
            /\ pc' = "flood_done"
       ELSE /\ stack' = [Front(stack) EXCEPT ![Len(stack) - 1].space = @ + Top.space,
                                             ![Len(stack) - 1].i = @ + 1]
            /\ UNCHANGED <<space, pc>>
    /\ UNCHANGED <<game_state, moves, best_move, start_pos, neighbour_order, visited,
                   visit_log>>

FloodNext ==
    \/ FloodEnterBlocked
    \/ FloodEnter
    \/ FloodSkip
    \/ FloodDescend
    \/ FloodReturn

(* The handler runs to completion: nothing preempts a started call.        *)
FloodSpec == FloodInit /\ [][FloodNext]_vars /\ WF_vars(FloodNext)

(***************************************************************************)
(* Vocabulary of the properties, stated from the design document and not   *)
(* through the operators above.                                            *)
(***************************************************************************)
Width == game_state.board.width

Height == game_state.board.height

Snakes == game_state.board.snakes

You == game_state.you

OnBoard(p) == p.x \in 0..(Width - 1) /\ p.y \in 0..(Height - 1)

Candidate(d) ==
    CASE d = "up"    -> Pos(You.body[1].x, You.body[1].y + 1)
      [] d = "down"  -> Pos(You.body[1].x, You.body[1].y - 1)
      [] d = "left"  -> Pos(You.body[1].x - 1, You.body[1].y)
      [] d = "right" -> Pos(You.body[1].x + 1, You.body[1].y)

NonTailCells == UNION {Range(Front(Snakes[i].body)) : i \in 1..Len(Snakes)}

Rejected(d) == ~OnBoard(Candidate(d)) \/ Candidate(d) \in NonTailCells

Opponents == {i \in 1..Len(Snakes) : Snakes[i].id # You.id}

WellFormed ==
    /\ \A i \in 1..Len(Snakes) : \A p \in Range(Snakes[i].body) : OnBoard(p)
    /\ \A p \in Range(game_state.board.food) : OnBoard(p)
    /\ \E i \in 1..Len(Snakes) : Snakes[i] = You

Scored == pc \in {"scored", "fed", "done"}

Final == pc \in {"fed", "done"}

(* The obstacle set of the design document: every body, without the acting *)
(* snake's last segment when its health is below 100.                      *)
ObstacleCells ==
    UNION {IF Snakes[i].id = You.id /\ You.health < 100
           THEN Range(Front(Snakes[i].body))
           ELSE Range(Snakes[i].body) : i \in 1..Len(Snakes)}

FreeCells == Cells(Width, Height) \ ObstacleCells

RECURSIVE Closure(_, _)
Closure(S, free) ==
    LET T == S \cup {c \in free : \E p \in S : Distance(p, c) = 1}
    IN  IF T = S THEN S ELSE Closure(T, free)

Region(p) == IF p \in FreeCells THEN Closure({p}, FreeCells) ELSE {}

C2_RejectedMovesKeepSentinel ==
    Scored => \A d \in Directions : Rejected(d) => moves[d] = NegInf

C2_Witness ==
    /\ pc = "fed"
    /\ game_state.board.food # <<>>
    /\ \E d \in Directions :
          /\ OnBoard(Candidate(d))
          /\ \E i \in Opponents : Candidate(d) \in Range(Front(Snakes[i].body))
          /\ moves[d] = NegInf
    /\ \E d \in Directions : ~OnBoard(Candidate(d)) /\ moves[d] = NegInf
    /\ \E d \in Directions : moves[d] # NegInf

(***************************************************************************)
(* C3.  The direction returned has a final score (after safety and food    *)
(* scoring) at least that of each other direction, and among the           *)
(* directions of maximal score (all four sentinels included) it is the     *)
(* first in the order UP, DOWN, LEFT, RIGHT.                               *)
(***************************************************************************)
Rank(d) == CASE d = "up" -> 1 [] d = "down" -> 2 [] d = "left" -> 3 [] d = "right" -> 4

C3_FirstMaximalDirection ==
    pc = "done" =>
       /\ best_move \in {"up", "down", "left", "right"}
       /\ \A d \in {"up", "down", "left", "right"} :
             /\ moves[best_move] >= moves[d]
             /\ Rank(d) < Rank(best_move) => moves[d] < moves[best_move]

C3_Witness ==
    /\ pc = "done"
    /\ moves[best_move] # NegInf
    /\ best_move = "down"
    /\ moves["right"] = moves["down"]
    /\ moves["up"] < moves["down"]

(***************************************************************************)
(* C4, as the design document states it.  In the open-board scenario       *)
(* (11 x 11, body (5,5) (5,4) (5,3), health 90, food at (5,8)) UP has the  *)
(* highest final score, and all four directions are on the board and free  *)
(* of collision, so none gets the sentinel.                                *)
(***************************************************************************)
C4_AsStated ==
    (Final /\ game_state = ScenarioOpenBoard) =>
       /\ \A d \in Directions \ {"up"} : moves["up"] > moves[d]
       /\ \A d \in Directions : ~Rejected(d) /\ moves[d] # NegInf

(***************************************************************************)
(* C4, amended.  In that scenario UP has the highest final score; UP, LEFT *)
(* and RIGHT are on the board and free of collision and get no sentinel;   *)
(* DOWN leads to (5,4), the snake's own second segment, and gets the       *)
(* sentinel.                                                               *)
(***************************************************************************)
C4_OpenBoardScenario ==
    (Final /\ game_state = ScenarioOpenBoard) =>
       /\ \A d \in Directions \ {"up"} : moves["up"] > moves[d]
       /\ \A d \in {"up", "left", "right"} : ~Rejected(d) /\ moves[d] # NegInf
       /\ Candidate("down") = You.body[2]
       /\ moves["down"] = NegInf

C4_Witness ==
    /\ pc = "done"
    /\ game_state = ScenarioOpenBoard
    /\ best_move = "up"
    /\ moves["up"] = Scale * 170
    /\ moves["left"] = Scale * 165

(***************************************************************************)
(* C5, as the design document states it.  Acting snake of length 3 with    *)
(* its head at (0,5), opponent of length 3 with its head at (0,6): UP is   *)
(* scored with the -150 head-to-head penalty and the -10 wall penalty (a   *)
(* finite score), and scores lower than some other direction whose         *)
(* candidate is not adjacent to the opponent's head.                       *)
(***************************************************************************)
OpponentHead == Snakes[2].body[1]

C5_AsStated ==
    (pc = "scored" /\ InScenarioHeadToHead(game_state)) =>
       /\ moves["up"] # NegInf
       /\ \E s \in -(Scale * 90)..(Scale * 50) :
             moves["up"] = Scale * 100 + s - Scale * 150 - Scale * 10
       /\ \E d \in Directions \ {"up"} :
             /\ Distance(Candidate(d), OpponentHead) # 1
             /\ moves["up"] < moves[d]

(***************************************************************************)
(* C5, amended.  In that scenario the candidate of UP is the opponent's    *)
(* head, a segment that is not its tail, so UP gets the sentinel and       *)
(* neither penalty is applied; UP scores no higher than any direction,     *)
(* and on a board at least two cells wide, with bodies that are paths of   *)
(* adjacent cells and do not overlap, it scores lower than DOWN or RIGHT,  *)
(* whose candidates are not adjacent to the opponent's head.               *)
(***************************************************************************)
C5_HeadToHeadScenario ==
    (Scored /\ InScenarioHeadToHead(game_state)) =>
       /\ Candidate("up") = OpponentHead
       /\ moves["up"] = NegInf
       /\ \A d \in Directions : moves["up"] <= moves[d]
       /\ Width >= 2 =>
             \E d \in {"down", "right"} :
                /\ Distance(Candidate(d), OpponentHead) # 1
                /\ moves["up"] < moves[d]

C5_Witness ==
    /\ pc = "scored"
    /\ InScenarioHeadToHead(game_state)
    /\ Width = 11
    /\ moves["up"] = NegInf
    /\ moves["down"] = NegInf
    /\ moves["right"] > NegInf

(***************************************************************************)
(* C8.  The flood fill never treats its start cell as an obstacle: for a   *)
(* candidate that is on the board and passes the immediate-collision check *)
(* (one on an opponent's tail, or on the acting snake's own tail at health *)
(* 100, in particular) the reachable space the safety scorer uses counts   *)
(* the candidate itself and is at least 1.                                 *)
(***************************************************************************)
C8_StartCellCounted ==
    pc = "scored" =>
       \A d \in Directions :
          ~Rejected(d) => _calculate_flood_fill(Self, Candidate(d)) >= 1

(***************************************************************************)
(* C9.  For a candidate that is on the board and no immediate collision    *)
(* the safety score is 100 + S + H + W: S = -30 * (length - space) when    *)
(* space <= length and min(50, space / 2) otherwise; H sums, over the      *)
(* opponents whose head is at Manhattan distance 1 from the candidate,     *)
(* -150 when the acting snake is not longer than that opponent and +25     *)
(* when it is; W is -10 for x on the left or right edge plus -10 for y on  *)
(* the bottom or top edge.  (Twice the score, as everywhere; space is the  *)
(* count the flood fill returns.)  The first definition of the method,     *)
(* with -75, -10 per missing cell and -20 per wall, plays no part.         *)
(***************************************************************************)
CloseOpponents(d) ==
    {i \in Opponents : Distance(Candidate(d), Snakes[i].body[1]) = 1}

SpaceScore(sp) ==
    IF sp <= Len(You.body)
    THEN -(Scale * 30 * (Len(You.body) - sp))
    ELSE IF sp >= 100 THEN Scale * 50 ELSE sp

HeadToHeadScore(d) ==
    - Scale * 150 * Cardinality({i \in CloseOpponents(d) :
                                   Len(You.body) <= Len(Snakes[i].body)})
    + Scale * 25 * Cardinality({i \in CloseOpponents(d) :
                                  Len(You.body) > Len(Snakes[i].body)})

WallScore(d) ==
    (IF Candidate(d).x \in {0, Width - 1} THEN -(Scale * 10) ELSE 0)
    + (IF Candidate(d).y \in {0, Height - 1} THEN -(Scale * 10) ELSE 0)

C9_SafetyScoreFormula ==
    pc = "scored" =>
       \A d \in Directions :
          ~Rejected(d) =>
             moves[d] = Scale * 100
                        + SpaceScore(_calculate_flood_fill(Self, Candidate(d)))
                        + HeadToHeadScore(d) + WallScore(d)

C9_Witness ==
    /\ pc = "scored"
    /\ \E d \in Directions :
          /\ ~Rejected(d)
          /\ Cardinality(CloseOpponents(d)) = 2
          /\ moves[d] < - Scale * 100
    /\ \E d \in Directions :
          /\ ~Rejected(d)
          /\ _calculate_flood_fill(Self, Candidate(d)) > Len(You.body)

(***************************************************************************)
(* C10.  To a direction whose safety score is not the sentinel the food    *)
(* scorer adds max(50 - 5 * d, 0) * weight, d being the Manhattan distance *)
(* from the candidate to the food nearest the candidate (the first such in *)
(* the food list) and weight 2.0 below health 50, 1.0 from 50 to 74, 0.5   *)
(* from 75 on, exactly when there is food and no opponent's head is        *)
(* strictly closer to that food than the acting snake's current head; an   *)
(* opponent as close as the head does not contest it.  Otherwise the score *)
(* is unchanged.                                                           *)
(***************************************************************************)
Food == game_state.board.food

NearestFood(p) ==
    Food[CHOOSE k \in 1..Len(Food) :
           /\ \A j \in 1..Len(Food) : Distance(p, Food[k]) <= Distance(p, Food[j])
           /\ \A j \in 1..(k - 1) : Distance(p, Food[j]) > Distance(p, Food[k])]

Contested(f) ==
    \E i \in Opponents :
       Distance(Snakes[i].body[1], f) < Distance(You.body[1], f)

TwiceWeight ==
    CASE You.health < 50 -> 4
      [] You.health >= 50 /\ You.health < 75 -> 2
      [] You.health >= 75 -> 1

FoodBonus(d) ==
    IF Food = <<>> \/ Contested(NearestFood(Candidate(d))) THEN 0
    ELSE LET dist == Distance(Candidate(d), NearestFood(Candidate(d)))
         IN  (IF 50 - 5 * dist > 0 THEN 50 - 5 * dist ELSE 0) * TwiceWeight

C10_FoodBonus ==
    [][pc = "scored" =>
         \A d \in Directions :
            moves[d] # NegInf => moves'[d] = moves[d] + FoodBonus(d)]_vars

C10_Witness ==
    /\ pc = "fed"
    /\ Len(Food) = 2
    /\ \E d \in Directions :
          /\ moves[d] # NegInf
          /\ FoodBonus(d) > 0
          /\ moves[d] = get_safe_moves(Self)[d] + FoodBonus(d)
          /\ \E i \in Opponents :
                Distance(Snakes[i].body[1], NearestFood(Candidate(d)))
                  = Distance(You.body[1], NearestFood(Candidate(d)))
    /\ \E d \in Directions :
          /\ moves[d] # NegInf
          /\ Contested(NearestFood(Candidate(d)))
          /\ moves[d] = get_safe_moves(Self)[d]

(***************************************************************************)
(* C6, as the design document states it.  On a w x h board that holds the  *)
(* acting snake and nothing else, the flood fill from any cell of the      *)
(* board returns w * h minus the number of obstacle cells (the distinct    *)
(* cells of the body, without the tail when health is below 100), for      *)
(* every start cell and every placement and shape of the body.  Stated     *)
(* here for the start cells that are not obstacles themselves.             *)
(***************************************************************************)
OneSnake == Len(Snakes) = 1

C6_AsStated ==
    (pc = "flood_done" /\ OneSnake /\ start_pos \notin ObstacleCells) =>
       space = Width * Height - Cardinality(ObstacleCells)

(***************************************************************************)
(* C6, amended.  On such a board the flood fill returns 0 from an obstacle *)
(* cell; from a free cell it returns at least 1 and at most w * h minus    *)
(* the number of obstacle cells, and exactly that number if and only if    *)
(* every free cell is connected to the start by free cells.                *)
(***************************************************************************)
C6_SingleSnakeFloodFill ==
    (pc = "flood_done" /\ OneSnake) =>
       /\ start_pos \in ObstacleCells => space = 0
       /\ start_pos \notin ObstacleCells =>
             /\ 1 <= space
             /\ space <= Width * Height - Cardinality(ObstacleCells)
             /\ space = Width * Height - Cardinality(ObstacleCells)
                  <=> Region(start_pos) = FreeCells

C6_Witness ==
    /\ pc = "flood_done"
    /\ OneSnake
    /\ start_pos \notin ObstacleCells
    /\ space = 1
    /\ Width * Height - Cardinality(ObstacleCells) = 3

(***************************************************************************)
(* C7.  From a start cell on the board that is no obstacle the flood fill  *)
(* terminates, adds each cell to the visited set at most once, and returns *)
(* the number of cells of the 4-connected region of free cells that holds  *)
(* the start (1 for a free cell whose neighbours are all obstacles or off  *)
(* the board), whatever the order in which the neighbours are explored.    *)
(***************************************************************************)
AddedOnce == \A i, j \in 1..Len(visit_log) : i # j => visit_log[i] # visit_log[j]

C7_Counts ==
    start_pos \in FreeCells =>
       /\ AddedOnce
       /\ Range(visit_log) = visited
       /\ pc = "flood_done" =>
             /\ space = Cardinality(Region(start_pos))
             /\ visited = Region(start_pos)
             /\ _calculate_flood_fill(Self, start_pos) = Cardinality(Region(start_pos))

C7_FloodFillCountsRegion ==
    /\ []C7_Counts
    /\ (start_pos \in FreeCells) => <>(pc = "flood_done")

C7_Witness ==
    /\ pc = "flood_done"
    /\ start_pos \in FreeCells
    /\ neighbour_order # Neighbours
    /\ space = 1
    /\ Len(visit_log) = 1
    /\ \E p \in ObstacleCells : Distance(p, start_pos) = 1
    /\ \E p \in FreeCells : p # start_pos

====
